---- MODULE Spec2Model ----
(***************************************************************************)
(* Model of the pocketbase client: one Client (the session: endpoint,      *)
(* credential source, bearer token) and the accessors built from it        *)
(* (Collection[T], Backup, Files).  Every operation runs the Authorize     *)
(* gate, then sends one request and classifies the response.               *)
(*                                                                         *)
(* Strings that the code inspects character by character (backup keys)     *)
(* are sequences of one-character strings; tokens and response bodies are  *)
(* opaque string literals.                                                 *)
(***************************************************************************)
EXTENDS Integers, Sequences, FiniteSets, TLC

\* ------------------------------------------------------------------ bounds

\* Total number of operations invoked in one behaviour.
MaxCalls == 2

\* Longest backup key handed to Backup.Create/Upload/Delete/Restore.
MaxKeyLen == 2

\* Longest backup name handed to Backup.Create when only Create is called.
MaxNameLen == 5

\* Longest file token and longest key handed to Backup.GetDownloadURL.
MaxArgLen == 2

\* Most pages one call of Collection.FullList requests.
MaxPages == 2

\* Most operations invoked in a session of an admin that uses the auth
\* flows.
MaxFlowCalls == 3

\* ------------------------------------------------------------ input domains

\* Characters of backup keys: an upper-case letter that is also a hex digit,
\* the escape character and a control character.
KeyChars == {"A", "%", "\t"}

\* Characters of backup names: the characters of ".zip", its "z" in upper
\* case.
NameChars == {".", "Z", "i", "p"}

\* Two names beyond that alphabet.
NameFoo == <<"F", "o", "o">>

NameFooZip == <<"F", "o", "o", ".", "z", "i", "p">>

\* Characters of the file token handed to Backup.GetDownloadURL: a space,
\* a letter and a character the query encoding escapes.
FileTokenChars == {" ", "t", "="}

\* Characters of the key handed to Backup.GetDownloadURL: a space, a form
\* feed (white space and a control character), a letter that is a hex digit
\* and the escape character.
DownloadKeyChars == {" ", "\f", "A", "%"}

\* Bearer tokens the server can issue ("" is what a body without a token
\* field decodes to).
NoToken == ""

IssuedTokens == {"a", "b"}

\* Response bodies the server can send.
BodyTokenA == "{\"token\":\"a\"}"

BodyTokenB == "{\"token\":\"b\"}"

BodyEmptyObject == "{}"

BodyTokenThenTypeError == "{\"token\":\"a\",\"token\":1}"

BodyEmptyArray == "[]"

BodyNotJSON == "oops"

BodyPaddedText == " denied\n"

Bodies ==
    { BodyTokenA, BodyTokenB, BodyEmptyObject, BodyTokenThenTypeError,
      BodyEmptyArray, BodyNotJSON, BodyPaddedText }

\* HTTP statuses the server can answer with.
Statuses == {200, 304, 401}

\* What a request method of the HTTP client returns: a transport error, or a
\* response with a status and a body.
TransportFailure == [kind |-> "transport", status |-> 0, body |-> ""]

NoResponse == [kind |-> "none", status |-> 0, body |-> ""]

Responses ==
    {TransportFailure} \cup
    [kind : {"http"}, status : Statuses, body : Bodies]

\* ------------------------------------------------------------- pure helpers

UpperChars ==
    << "A", "B", "C", "D", "E", "F", "G", "H", "I", "J", "K", "L", "M",
       "N", "O", "P", "Q", "R", "S", "T", "U", "V", "W", "X", "Y", "Z" >>

LowerChars ==
    << "a", "b", "c", "d", "e", "f", "g", "h", "i", "j", "k", "l", "m",
       "n", "o", "p", "q", "r", "s", "t", "u", "v", "w", "x", "y", "z" >>

\* strings.ToLower on one ASCII character.
LowerChar(c) ==
    IF \E i \in 1..Len(UpperChars) : UpperChars[i] = c
    THEN LowerChars[CHOOSE i \in 1..Len(UpperChars) : UpperChars[i] = c]
    ELSE c

\* strings.ToLower.
ToLower(s) == [i \in 1..Len(s) |-> LowerChar(s[i])]

\* strings.Contains.
Contains(s, sub) ==
    \E i \in 0..(Len(s) - Len(sub)) :
        \A j \in 1..Len(sub) : s[i + j] = sub[j]

ZipSuffix == <<".", "z", "i", "p">>

\* A bug: ".zip" is appended to every name.
getZIPNameAlwaysAppend(backupName) == ToLower(backupName) \o ZipSuffix

\* getZIPName: lower-case the name and append ".zip" unless the lower-cased
\* name contains ".zip" somewhere.
getZIPName(backupName) ==
    LET zipName == ToLower(backupName)
    IN  IF ~Contains(zipName, ZipSuffix) THEN zipName \o ZipSuffix ELSE zipName

\* The grave accent (code 96), by name.
GraveAccent == "\\x60"

\* The printable ASCII characters in the order of their codes 32..126.
AsciiPrintable ==
    << " ", "!", "\"", "#", "$", "%", "&", "'", "(", ")", "*", "+",
       ",", "-", ".", "/", "0", "1", "2", "3", "4", "5", "6", "7",
       "8", "9", ":", ";", "<", "=", ">", "?", "@", "A", "B", "C",
       "D", "E", "F", "G", "H", "I", "J", "K", "L", "M", "N", "O",
       "P", "Q", "R", "S", "T", "U", "V", "W", "X", "Y", "Z", "[",
       "\\", "]", "^", "_", GraveAccent, "a", "b", "c", "d", "e", "f", "g",
       "h", "i", "j", "k", "l", "m", "n", "o", "p", "q", "r", "s",
       "t", "u", "v", "w", "x", "y", "z", "{", "|", "}", "~" >>

\* Characters outside the printable ASCII range, by name.
VerticalTab == "\\v"

Delete7F == "\\x7f"

NextLine == "\\u0085"

NoBreakSpace == "\\u00a0"

\* The bytes of the UTF-8 encoding of a character.
Utf8Bytes(c) ==
    IF \E i \in 1..Len(AsciiPrintable) : AsciiPrintable[i] = c
    THEN <<31 + (CHOOSE i \in 1..Len(AsciiPrintable) : AsciiPrintable[i] = c)>>
    ELSE IF c = "\t" THEN <<9>>
    ELSE IF c = "\n" THEN <<10>>
    ELSE IF c = VerticalTab THEN <<11>>
    ELSE IF c = "\f" THEN <<12>>
    ELSE IF c = "\r" THEN <<13>>
    ELSE IF c = Delete7F THEN <<127>>
    ELSE IF c = NextLine THEN <<194, 133>>
    ELSE IF c = NoBreakSpace THEN <<194, 160>>
    ELSE <<>>

\* net/url stringContainsCTLByte: a byte below ' ' or the byte 0x7f.
stringContainsCTLByte(s) ==
    \E i \in 1..Len(s) :
        \E j \in 1..Len(Utf8Bytes(s[i])) :
            Utf8Bytes(s[i])[j] < 32 \/ Utf8Bytes(s[i])[j] = 127

UpperHex ==
    << "0", "1", "2", "3", "4", "5", "6", "7", "8", "9",
       "A", "B", "C", "D", "E", "F" >>

\* net/url escape of one byte: '%' and two upper-case hex digits.
PercentByte(b) == <<"%", UpperHex[(b \div 16) + 1], UpperHex[(b % 16) + 1]>>

HexChars ==
    {"0", "1", "2", "3", "4", "5", "6", "7", "8", "9",
     "a", "b", "c", "d", "e", "f", "A", "B", "C", "D", "E", "F"}

RECURSIVE EscapesOK(_, _)
\* net/url unescape in path or fragment mode: every '%' from index i on is
\* followed by two hex digits.
EscapesOK(s, i) ==
    IF i > Len(s) THEN TRUE
    ELSE IF s[i] = "%"
         THEN /\ i + 2 <= Len(s)
              /\ s[i + 1] \in HexChars
              /\ s[i + 2] \in HexChars
              /\ EscapesOK(s, i + 3)
         ELSE EscapesOK(s, i + 1)

\* Index of the first occurrence of character c in s, or Len(s) + 1.
IndexOf(s, c) ==
    IF \E i \in 1..Len(s) : s[i] = c
    THEN CHOOSE i \in 1..Len(s) : s[i] = c /\ \A j \in 1..(i - 1) : s[j] # c
    ELSE Len(s) + 1

\* url.Parse succeeds on endpoint + raw, where raw starts a rooted path: the
\* fragment is cut off at the first '#'; what stands before it must hold no
\* control character and its path (before the first '?') must unescape, the
\* query is kept raw; the fragment must unescape and is not tested for
\* control characters.
urlParseOK(raw) ==
    LET h    == IndexOf(raw, "#")
        rest == SubSeq(raw, 1, h - 1)
        frag == SubSeq(raw, h + 1, Len(raw))
        q    == IndexOf(rest, "?")
        path == SubSeq(rest, 1, q - 1)
    IN  /\ ~stringContainsCTLByte(rest)
        /\ EscapesOK(path, 1)
        /\ EscapesOK(frag, 1)

BackupsPath == <<"/", "a", "p", "i", "/", "b", "a", "c", "k", "u", "p", "s", "/">>

RestoreSuffix == <<"/", "r", "e", "s", "t", "o", "r", "e">>

\* The URL Backup.Restore builds (after the endpoint).
RestoreURL(key) == BackupsPath \o ToLower(key) \o RestoreSuffix

\* unicode.IsSpace: '\t', '\n', '\v', '\f', '\r', ' ', U+0085, U+00A0.
WhiteSpace ==
    {"\t", "\n", VerticalTab, "\f", "\r", " ", NextLine, NoBreakSpace}

RECURSIVE TrimLeft(_)
\* strings.TrimLeftFunc(s, unicode.IsSpace).
TrimLeft(s) ==
    IF Len(s) > 0 /\ Head(s) \in WhiteSpace THEN TrimLeft(Tail(s)) ELSE s

RECURSIVE TrimRight(_)
\* strings.TrimRightFunc(s, unicode.IsSpace).
TrimRight(s) ==
    IF Len(s) > 0 /\ s[Len(s)] \in WhiteSpace
    THEN TrimRight(SubSeq(s, 1, Len(s) - 1))
    ELSE s

\* strings.TrimSpace.
TrimSpace(s) == TrimRight(TrimLeft(s))

\* A bug: the arguments are compared with "" without trimming.
ArgsMissingUntrimmed(fileToken, key) == Len(fileToken) = 0 \/ Len(key) = 0

\* GetDownloadURL: strings.TrimSpace(token) == "" || strings.TrimSpace(key) == ""
ArgsMissing(fileToken, key) ==
    Len(TrimSpace(fileToken)) = 0 \/ Len(TrimSpace(key)) = 0

\* The characters net/url shouldEscape leaves alone in a query component:
\* letters, digits, '-', '_', '.', '~'.
Unreserved ==
    {UpperChars[i] : i \in 1..Len(UpperChars)}
    \cup {LowerChars[i] : i \in 1..Len(LowerChars)}
    \cup {"0", "1", "2", "3", "4", "5", "6", "7", "8", "9"}
    \cup {"-", "_", ".", "~"}

RECURSIVE PercentBytes(_)
\* Every byte of the sequence percent-encoded.
PercentBytes(bytes) ==
    IF Len(bytes) = 0 THEN <<>>
    ELSE PercentByte(Head(bytes)) \o PercentBytes(Tail(bytes))

\* url.QueryEscape on one character: a space becomes "+", an unreserved
\* character stays, every other character has its bytes percent-encoded.
QueryEscapeChar(c) ==
    IF c = " " THEN <<"+">>
    ELSE IF c \in Unreserved THEN <<c>>
    ELSE PercentBytes(Utf8Bytes(c))

RECURSIVE QueryEscape(_)
\* url.QueryEscape, as url.Values.Encode applies it to the value.
QueryEscape(s) ==
    IF Len(s) = 0 THEN <<>>
    ELSE QueryEscapeChar(Head(s)) \o QueryEscape(Tail(s))

RECURSIVE EscapeSpaces(_)
\* Every space replaced by "%20".
EscapeSpaces(s) ==
    IF Len(s) = 0 THEN <<>>
    ELSE (IF Head(s) = " " THEN <<"%", "2", "0">> ELSE <<Head(s)>>)
         \o EscapeSpaces(Tail(s))

\* URL.EscapedPath of a path that parsed: the raw path when it is a valid
\* encoding, otherwise the decoded path encoded anew.  Over DownloadKeyChars
\* the only escape that parses is "%AA", which is encoded anew as "%AA", so
\* the new encoding differs from the raw path in its spaces alone.
EscapedPath(path) == EscapeSpaces(path)

TokenParam == <<"t", "o", "k", "e", "n", "=">>

\* The string GetDownloadURL hands to url.Parse (after the endpoint).
DownloadRawURL(fileToken, key) ==
    BackupsPath \o key \o <<"?">> \o TokenParam \o QueryEscape(fileToken)

\* u.String() of the parsed download URL (after the endpoint).
DownloadURL(fileToken, key) ==
    EscapedPath(BackupsPath \o key) \o <<"?">> \o TokenParam
    \o QueryEscape(fileToken)

\* The empty URL GetDownloadURL returns beside an error.
NoURL == <<>>

\* resty Response.IsError: status above 399.
IsError(status) == status > 399

\* resty Response.String: the body with surrounding white space trimmed.
BodyString(body) == IF body = BodyPaddedText THEN "denied" ELSE body

\* The JSON value a body holds: an object, an array, or no JSON at all.
BodyKind(body) ==
    IF body \in {BodyTokenA, BodyTokenB, BodyEmptyObject, BodyTokenThenTypeError}
    THEN "object"
    ELSE IF body = BodyEmptyArray THEN "array"
    ELSE "invalid"

\* json.Unmarshal of a response body into the value an operation returns.
\* shape "token": a struct with a string field tagged "token"
\*   (AuthWithPasswordResponse, AuthWithOauth2Response, AuthRefreshResponse,
\*   ResponseGetToken); shape "struct": a struct without such a field
\*   (AuthMethod, the caller's T); shape "slice": a slice of structs.
\* ok is FALSE when Unmarshal returns an error: the body is not JSON, or an
\* array is decoded into a struct, or an object into a slice, or a member
\* has the wrong type.  Token is what the value's token field holds
\* afterwards: a type error is reported after the fields decoded before it
\* have been stored.
Unmarshal(body, shape) ==
    IF BodyKind(body) = "invalid"
    THEN [ok |-> FALSE, Token |-> NoToken]
    ELSE IF shape = "slice"
    THEN [ok |-> BodyKind(body) = "array", Token |-> NoToken]
    ELSE IF BodyKind(body) = "array"
    THEN [ok |-> FALSE, Token |-> NoToken]
    ELSE IF shape = "struct"
    THEN [ok |-> TRUE, Token |-> NoToken]
    ELSE IF body = BodyTokenA THEN [ok |-> TRUE, Token |-> "a"]
    ELSE IF body = BodyTokenB THEN [ok |-> TRUE, Token |-> "b"]
    ELSE IF body = BodyTokenThenTypeError THEN [ok |-> FALSE, Token |-> "a"]
    ELSE [ok |-> TRUE, Token |-> NoToken]

\* ---------------------------------------------------------------- errors

NoErr == [kind |-> "none", status |-> 0, msg |-> ""]

\* "can't send ... request to pocketbase, err %w"
SendErr == [kind |-> "send", status |-> 0, msg |-> ""]

\* A bug: the error names the status and leaves the body out.
StatusErrWithoutBody(r) == [kind |-> "status", status |-> r.status, msg |-> ""]

\* "pocketbase returned status: %d, msg: %s, err %w" wrapping ErrInvalidResponse
StatusErr(r) ==
    [kind |-> "status", status |-> r.status, msg |-> BodyString(r.body)]

\* "can't unmarshal response, err %w"
UnmarshalErr == [kind |-> "unmarshal", status |-> 0, msg |-> ""]

\* Backup.Restore: "... because of an invalid URL: err %w"
URLErr == [kind |-> "url", status |-> 0, msg |-> ""]

\* GetDownloadURL: "cannot get donwload-URL because of a missing token
\* and/or key"
ArgErr == [kind |-> "argument", status |-> 0, msg |-> ""]

\* The error Authorize returns when the login exchange fails.
LoginErr(r) ==
    [kind |-> "authorize", status |-> r.status, msg |-> BodyString(r.body)]

\* ------------------------------------------------------------- operations

CollectionOps ==
    { "ListAuthMethods", "AuthWithPassword", "AuthWithOAuth2Code",
      "AuthRefresh", "RequestVerification", "ConfirmVerification",
      "RequestPasswordReset", "ConfirmPasswordReset", "RequestEmailChange",
      "ConfirmEmailChange", "ListExternalAuths", "UnlinkExternalAuth",
      "One", "OneWithParams" }

BackupOps ==
    { "BackupFullList", "BackupCreate", "BackupUpload", "BackupDelete",
      "BackupRestore" }

FilesOps == {"FilesGetToken"}

Ops == CollectionOps \cup BackupOps \cup FilesOps

\* The Collection methods that hand over to the method of the same name of
\* the embedded Client.
DelegatingOps == {"Update", "Create", "Delete", "List", "FullList"}

\* The type the operation unmarshals a 2xx body into ("none": the body is
\* not read).
Shape(o) ==
    IF o \in {"AuthWithPassword", "AuthWithOAuth2Code", "AuthRefresh",
              "FilesGetToken"}
    THEN "token"
    ELSE IF o \in {"ListAuthMethods", "One", "OneWithParams", "Create",
                    "List", "FullList"}
    THEN "struct"
    ELSE IF o \in {"ListExternalAuths", "BackupFullList"} THEN "slice"
    ELSE "none"

\* A bug: every operation that decodes a token stores it in the session.
StoresTokenAlways(o) == Shape(o) = "token"

\* The operations that end with c.token = response.Token.
StoresToken(o) == o \in {"AuthWithPassword", "AuthWithOAuth2Code", "AuthRefresh"}

\* A bug: the token is stored only when the session holds none.
AssignTokenIfUnset(old, new) == IF old = NoToken THEN new ELSE old

\* c.token = response.Token
AssignToken(old, new) == new

\* A bug: the error of the gate is dropped and the request goes out.
GateFailedNever(e) == FALSE

\* if err := c.Authorize(); err != nil { return response, err }
GateFailed(e) == e # NoErr

\* What an operation returns beside a decode error: the auth flows, One and
\* the lists return the value Unmarshal was filling; Files.GetToken returns "".
ReturnedOnDecodeError(o, u) == IF o = "FilesGetToken" THEN NoToken ELSE u.Token

\* The name a backup request carries: Create sends getZIPName(key[0]) when a
\* key is given, Upload and Delete send the key as given, Restore sends the
\* lower-cased key in the URL.
RequestName(o, args) ==
    IF Len(args) = 0 THEN <<>>
    ELSE IF o = "BackupCreate" THEN <<getZIPName(args[1])>>
    ELSE IF o = "BackupRestore" THEN <<ToLower(args[1])>>
    ELSE <<args[1]>>

\* ------------------------------------------------------------------ state

VARIABLES
    heap,       \* the Client objects: heap[ptr].token is a client's token
    cred,       \* credential source of the client: "none", "admin", "token"
    adminOK,    \* whether the server accepts the admin email/password
    nprocs,     \* number of caller threads using the client
    pc,         \* per thread: where it stands in its operation
    op,         \* per thread: the operation in progress
    acc,        \* per thread: the *Client its accessor embeds
    args,       \* per thread: the key argument(s) of the operation
    authErr,    \* per thread: what Authorize returned
    sent,       \* per thread: requests the operation has dispatched
    atSend,     \* per thread: the session token (c.token) as it stood when
                \* the request was handed to the HTTP client
    reqName,    \* per thread: the backup name the request carries
    resp,       \* per thread: the response the operation received
    err,        \* per thread: the error the operation returned
    response,   \* per thread: the value the operation returned
    calls,      \* operations invoked so far
    loginCount, \* login exchanges performed by Authorize so far
    authWrites, \* token writes made by Authorize so far
    flowWrites, \* token writes made by the auth flows so far
    hadToken,   \* whether the session token has ever been non-empty
    hadRecordToken  \* whether an auth flow has ever stored a non-empty token

vars ==
    << heap, cred, adminOK, nprocs, pc, op, acc, args, authErr, sent, atSend,
       reqName, resp, err, response, calls, loginCount, authWrites,
       flowWrites, hadToken, hadRecordToken >>

\* The address of the one Client.
ClientPtr == 1

\* The caller threads.
Procs == 1..nprocs

\* The session token: the token field of the Client.
token == heap[ClientPtr].token

RECURSIVE SeqsUpTo(_)
\* All keys of length at most n.
SeqsUpTo(n) ==
    IF n = 0 THEN {<<>>}
    ELSE LET shorter == SeqsUpTo(n - 1)
         IN  shorter \cup
             {Append(s, c) : s \in {t \in shorter : Len(t) = n - 1}, c \in KeyChars}

Keys == SeqsUpTo(MaxKeyLen)

RECURSIVE SeqsOver(_, _)
\* All sequences of length at most n over the characters in chars.
SeqsOver(chars, n) ==
    IF n = 0 THEN {<<>>}
    ELSE LET shorter == SeqsOver(chars, n - 1)
         IN  shorter \cup
             {Append(s, c) : s \in {t \in shorter : Len(t) = n - 1}, c \in chars}

\* The backup names handed to Backup.Create.
Names == SeqsOver(NameChars, MaxNameLen) \cup {NameFoo, NameFooZip}

\* ------------------------------------------------------------- accessors

\* A bug: the accessor embeds a copy of the Client (a value, not a pointer),
\* so it reads and writes a token cell of its own.
CollectionSetByValue(h, client) ==
    [ref |-> Len(h) + 1, heap |-> Append(h, h[client])]

\* CollectionSet: &Collection[T]{Client: client, ...}; the accessor embeds
\* the *Client it was given, and no Client is allocated.
CollectionSet(h, client) == [ref |-> client, heap |-> h]

\* Backup{Client: c}: the Backup struct embeds *Client.
BackupOf(h, client) == [ref |-> client, heap |-> h]

\* Files{Client: c}: the Files struct embeds *Client.
FilesOf(h, client) == [ref |-> client, heap |-> h]

\* The accessor an operation is a method of, built from the client.
AccessorFor(o, h, client) ==
    IF o \in CollectionOps \cup DelegatingOps THEN CollectionSet(h, client)
    ELSE IF o \in BackupOps THEN BackupOf(h, client)
    ELSE FilesOf(h, client)

\* ------------------------------------------------------------------- Init

NewClient(source, tok) == <<[token |-> tok]>>

InitCommon ==
    /\ cred \in {"none", "admin", "token"}
    /\ adminOK \in BOOLEAN
    /\ (cred # "admin" => adminOK = FALSE)
    /\ \E tok \in IssuedTokens \cup {NoToken} :
          /\ (cred = "token") = (tok # NoToken)
          /\ heap = NewClient(cred, tok)
    /\ pc = [p \in Procs |-> "idle"]
    /\ op = [p \in Procs |-> "-"]
    /\ acc = [p \in Procs |-> ClientPtr]
    /\ args = [p \in Procs |-> <<>>]
    /\ authErr = [p \in Procs |-> NoErr]
    /\ sent = [p \in Procs |-> 0]
    /\ atSend = [p \in Procs |-> NoToken]
    /\ reqName = [p \in Procs |-> <<>>]
    /\ resp = [p \in Procs |-> NoResponse]
    /\ err = [p \in Procs |-> NoErr]
    /\ response = [p \in Procs |-> NoToken]
    /\ calls = 0
    /\ loginCount = 0
    /\ authWrites = 0
    /\ flowWrites = 0
    /\ hadToken = (token # NoToken)
    /\ hadRecordToken = FALSE

\* One caller: the operations of the session run one after the other.
Init ==
    /\ nprocs = 1
    /\ InitCommon

\* Two callers sharing a client with valid admin email/password and no token
\* yet: their operations interleave at every step.
ConcInit ==
    /\ nprocs = 2
    /\ InitCommon
    /\ cred = "admin"
    /\ adminOK

\* ---------------------------------------------------------------- actions

\* A caller starts operation o with the given key arguments on an accessor
\* built from the client, as one of at most limit calls of the session; the
\* first statement of o is c.Authorize().
Start(p, o, a, limit) ==
    /\ pc[p] = "idle"
    /\ calls < limit
    /\ LET made == AccessorFor(o, heap, ClientPtr)
       IN  /\ heap' = made.heap
           /\ acc' = [acc EXCEPT ![p] = made.ref]
    /\ pc' = [pc EXCEPT ![p] = "authorize"]
    /\ op' = [op EXCEPT ![p] = o]
    /\ args' = [args EXCEPT ![p] = a]
    /\ calls' = calls + 1
    /\ UNCHANGED << cred, adminOK, nprocs, authErr, sent, atSend, reqName,
                    resp, err, response, loginCount, authWrites, flowWrites,
                    hadToken,
                    hadRecordToken >>

\* The same in a session of at most MaxCalls calls.
Invoke(p, o, a) == Start(p, o, a, MaxCalls)

ListAuthMethods(p) == Invoke(p, "ListAuthMethods", <<>>)

AuthWithPassword(p) == Invoke(p, "AuthWithPassword", <<>>)

AuthWithOAuth2Code(p) == Invoke(p, "AuthWithOAuth2Code", <<>>)

AuthRefresh(p) == Invoke(p, "AuthRefresh", <<>>)

RequestVerification(p) == Invoke(p, "RequestVerification", <<>>)

ConfirmVerification(p) == Invoke(p, "ConfirmVerification", <<>>)

RequestPasswordReset(p) == Invoke(p, "RequestPasswordReset", <<>>)

ConfirmPasswordReset(p) == Invoke(p, "ConfirmPasswordReset", <<>>)

RequestEmailChange(p) == Invoke(p, "RequestEmailChange", <<>>)

ConfirmEmailChange(p) == Invoke(p, "ConfirmEmailChange", <<>>)

ListExternalAuths(p) == Invoke(p, "ListExternalAuths", <<>>)

UnlinkExternalAuth(p) == Invoke(p, "UnlinkExternalAuth", <<>>)

One(p) == Invoke(p, "One", <<>>)

OneWithParams(p) == Invoke(p, "OneWithParams", <<>>)

BackupFullList(p) == Invoke(p, "BackupFullList", <<>>)

BackupCreate(p) ==
    \E a \in {<<>>} \cup {<<k>> : k \in Keys} : Invoke(p, "BackupCreate", a)

BackupUpload(p) == \E k \in Keys : Invoke(p, "BackupUpload", <<k>>)

BackupDelete(p) == \E k \in Keys : Invoke(p, "BackupDelete", <<k>>)

BackupRestore(p) == \E k \in Keys : Invoke(p, "BackupRestore", <<k>>)

FilesGetToken(p) == Invoke(p, "FilesGetToken", <<>>)

\* Collection.Update/Create/Delete/List/FullList: each calls the Client
\* method of its name, which runs behind the Authorize gate and sends its
\* request like every other operation.
Update(p) == Invoke(p, "Update", <<>>)

Create(p) == Invoke(p, "Create", <<>>)

Delete(p) == Invoke(p, "Delete", <<>>)

List(p) == Invoke(p, "List", <<>>)

FullList(p) == Invoke(p, "FullList", <<>>)

\* The file tokens and keys handed to Backup.GetDownloadURL.
FileTokens == SeqsOver(FileTokenChars, MaxArgLen)

DownloadKeys == SeqsOver(DownloadKeyChars, MaxArgLen)

\* Backup.GetDownloadURL, up to its call of Authorize: with a missing token
\* or key it returns "" and an error at once.
BackupGetDownloadURL(p) ==
    /\ pc[p] = "idle"
    /\ \E t \in FileTokens, k \in DownloadKeys :
          IF ArgsMissing(t, k)
          THEN /\ calls < MaxCalls
               /\ pc' = [pc EXCEPT ![p] = "done"]
               /\ op' = [op EXCEPT ![p] = "BackupGetDownloadURL"]
               /\ args' = [args EXCEPT ![p] = <<t, k>>]
               /\ err' = [err EXCEPT ![p] = ArgErr]
               /\ response' = [response EXCEPT ![p] = NoURL]
               /\ calls' = calls + 1
               /\ LET made == BackupOf(heap, ClientPtr)
                  IN  /\ heap' = made.heap
                      /\ acc' = [acc EXCEPT ![p] = made.ref]
               /\ UNCHANGED << cred, adminOK, nprocs, authErr, sent, atSend,
                               reqName, resp, loginCount, authWrites,
                               flowWrites, hadToken,
                    hadRecordToken >>
          ELSE Invoke(p, "BackupGetDownloadURL", <<t, k>>)

\* Backup.GetDownloadURL after Authorize has returned: the error of the gate
\* is returned with ""; otherwise the URL is built and parsed, and the
\* parsed URL is returned as a string.
BuildDownloadURL(p) ==
    /\ pc[p] = "gated"
    /\ op[p] = "BackupGetDownloadURL"
    /\ IF GateFailed(authErr[p])
       THEN /\ err' = [err EXCEPT ![p] = authErr[p]]
            /\ response' = [response EXCEPT ![p] = NoURL]
       ELSE IF ~urlParseOK(DownloadRawURL(args[p][1], args[p][2]))
       THEN /\ err' = [err EXCEPT ![p] = URLErr]
            /\ response' = [response EXCEPT ![p] = NoURL]
       ELSE /\ response' = [response EXCEPT
                              ![p] = DownloadURL(args[p][1], args[p][2])]
            /\ UNCHANGED err
    /\ pc' = [pc EXCEPT ![p] = "done"]
    /\ UNCHANGED << heap, cred, adminOK, nprocs, op, acc, args, authErr, sent,
                    atSend, reqName, resp, calls, loginCount, authWrites,
                    flowWrites, hadToken,
                    hadRecordToken >>

\* A bug: Authorize logs in on every call of an admin session.
AuthorizeNeedsLoginAlways(tok, source) == source = "admin"

\* Authorize returns at once when the session holds a token or has no admin
\* email/password; otherwise it performs the login exchange.
AuthorizeNeedsLogin(tok, source) == tok = NoToken /\ source = "admin"

\* Authorize, up to its decision whether to log in.
AuthorizeEnter(p) ==
    /\ pc[p] = "authorize"
    /\ IF AuthorizeNeedsLogin(heap[acc[p]].token, cred)
       THEN pc' = [pc EXCEPT ![p] = "login"]
       ELSE pc' = [pc EXCEPT ![p] = "gated"]
    /\ authErr' = [authErr EXCEPT ![p] = NoErr]
    /\ UNCHANGED << heap, cred, adminOK, nprocs, op, acc, args, sent, atSend,
                    reqName, resp, err, response, calls, loginCount,
                    authWrites, flowWrites, hadToken,
                    hadRecordToken >>

\* What the server answers to the login request: a 2xx response carrying a
\* token when it accepts the credentials, anything else when it does not.
LoginResponses(accepted) ==
    LET granting == [kind : {"http"}, status : {200},
                     body : {BodyTokenA, BodyTokenB}]
    IN  IF accepted THEN granting ELSE Responses \ granting

\* Authorize, the login exchange: one request; a 2xx response that decodes
\* has its token stored in the session, anything else is returned as an
\* error and the session is left alone.
AuthorizeLogin(p) ==
    /\ pc[p] = "login"
    /\ \E r \in LoginResponses(adminOK) :
          LET u  == Unmarshal(r.body, "token")
              ok == r.kind = "http" /\ ~IsError(r.status) /\ u.ok
          IN  /\ heap' = IF ok
                         THEN [heap EXCEPT ![acc[p]].token = u.Token]
                         ELSE heap
              /\ authWrites' = IF ok THEN authWrites + 1 ELSE authWrites
              /\ authErr' = [authErr EXCEPT ![p] = IF ok THEN NoErr ELSE LoginErr(r)]
    /\ loginCount' = loginCount + 1
    /\ hadToken' = (hadToken \/ heap'[ClientPtr].token # NoToken)
    /\ pc' = [pc EXCEPT ![p] = "gated"]
    /\ UNCHANGED << cred, adminOK, nprocs, op, acc, args, sent, atSend,
                    reqName, resp, err, response, calls, flowWrites,
                    hadRecordToken >>

\* The operations that build their request with SetAuthToken(c.token).  The
\* requests of the other operations carry the credentials the HTTP client
\* was given by code that is not among the sources.
AttachesToken(o) ==
    o \in {"AuthRefresh", "RequestEmailChange", "ConfirmEmailChange"}

\* After Authorize has returned: its error is returned as it is with the
\* zero value; Backup.Restore returns when its URL does not parse; otherwise
\* the request is built and handed to the HTTP client.  atSend keeps the
\* value c.token has at that moment: it is the token the request carries
\* for the operations of AttachesToken, and for every operation the state
\* of the session the call's result is compared with.
Dispatch(p) ==
    /\ pc[p] = "gated"
    /\ op[p] \in Ops \cup DelegatingOps
    /\ IF GateFailed(authErr[p])
       THEN /\ err' = [err EXCEPT ![p] = authErr[p]]
            /\ pc' = [pc EXCEPT ![p] = "done"]
            /\ UNCHANGED << sent, atSend, reqName >>
       ELSE IF op[p] = "BackupRestore" /\ ~urlParseOK(RestoreURL(args[p][1]))
       THEN /\ err' = [err EXCEPT ![p] = URLErr]
            /\ pc' = [pc EXCEPT ![p] = "done"]
            /\ UNCHANGED << sent, atSend, reqName >>
       ELSE /\ sent' = [sent EXCEPT ![p] = sent[p] + 1]
            /\ atSend' = [atSend EXCEPT ![p] = heap[acc[p]].token]
            /\ reqName' = [reqName EXCEPT ![p] = RequestName(op[p], args[p])]
            /\ pc' = [pc EXCEPT ![p] = "wait"]
            /\ UNCHANGED err
    /\ UNCHANGED << heap, cred, adminOK, nprocs, op, acc, args, authErr, resp,
                    response, calls, loginCount, authWrites, flowWrites,
                    hadToken,
                    hadRecordToken >>

\* The request method returns: transport error, then resp.IsError(), then
\* json.Unmarshal (for the operations that read the body), then, for the
\* three auth flows, c.token = response.Token.  FullList goes on to its
\* paging after a page that decoded.
Receive(p) ==
    /\ pc[p] = "wait"
    /\ \E r \in Responses :
          LET u == Unmarshal(r.body, Shape(op[p]))
          IN  /\ resp' = [resp EXCEPT ![p] = r]
              /\ IF r.kind = "transport"
                 THEN /\ err' = [err EXCEPT ![p] = SendErr]
                      /\ UNCHANGED << response, heap, flowWrites >>
                 ELSE IF IsError(r.status)
                 THEN /\ err' = [err EXCEPT ![p] = StatusErr(r)]
                      /\ UNCHANGED << response, heap, flowWrites >>
                 ELSE IF Shape(op[p]) = "none"
                 THEN UNCHANGED << err, response, heap, flowWrites >>
                 ELSE IF ~u.ok
                 THEN /\ err' = [err EXCEPT ![p] = UnmarshalErr]
                      /\ response' = [response EXCEPT
                                        ![p] = ReturnedOnDecodeError(op[p], u)]
                      /\ UNCHANGED << heap, flowWrites >>
                 ELSE /\ response' = [response EXCEPT ![p] = u.Token]
                      /\ IF StoresToken(op[p])
                         THEN /\ heap' = [heap EXCEPT ![acc[p]].token =
                                            AssignToken(@, u.Token)]
                              /\ flowWrites' = flowWrites + 1
                         ELSE UNCHANGED << heap, flowWrites >>
                      /\ UNCHANGED err
    /\ hadToken' = (hadToken \/ heap'[ClientPtr].token # NoToken)
    /\ hadRecordToken' =
          ( \/ hadRecordToken
            \/ flowWrites' # flowWrites /\ heap'[ClientPtr].token # NoToken )
    /\ pc' = [pc EXCEPT ![p] = IF op[p] = "FullList" /\ err'[p] = NoErr
                                THEN "paged"
                                ELSE "done"]
    /\ UNCHANGED << cred, adminOK, nprocs, op, acc, args, authErr, sent,
                    atSend, reqName, calls, loginCount, authWrites >>

\* Client.FullList after a page has been decoded: while the server has more
\* pages the next page is requested, otherwise the call returns.
FullListNextPage(p) ==
    /\ pc[p] = "paged"
    /\ \E more \in BOOLEAN :
          IF more /\ sent[p] < MaxPages
          THEN /\ sent' = [sent EXCEPT ![p] = sent[p] + 1]
               /\ atSend' = [atSend EXCEPT ![p] = heap[acc[p]].token]
               /\ pc' = [pc EXCEPT ![p] = "wait"]
          ELSE /\ pc' = [pc EXCEPT ![p] = "done"]
               /\ UNCHANGED << sent, atSend >>
    /\ UNCHANGED << heap, cred, adminOK, nprocs, op, acc, args, authErr,
                    reqName, resp, err, response, calls, loginCount,
                    authWrites, flowWrites, hadToken,
                    hadRecordToken >>

\* The caller has its result and is free to start the next operation.
Return(p) ==
    /\ pc[p] = "done"
    /\ pc' = [pc EXCEPT ![p] = "idle"]
    /\ op' = [op EXCEPT ![p] = "-"]
    /\ acc' = [acc EXCEPT ![p] = ClientPtr]
    /\ args' = [args EXCEPT ![p] = <<>>]
    /\ authErr' = [authErr EXCEPT ![p] = NoErr]
    /\ sent' = [sent EXCEPT ![p] = 0]
    /\ atSend' = [atSend EXCEPT ![p] = NoToken]
    /\ reqName' = [reqName EXCEPT ![p] = <<>>]
    /\ resp' = [resp EXCEPT ![p] = NoResponse]
    /\ err' = [err EXCEPT ![p] = NoErr]
    /\ response' = [response EXCEPT ![p] = NoToken]
    /\ UNCHANGED << heap, cred, adminOK, nprocs, calls, loginCount,
                    authWrites, flowWrites, hadToken,
                    hadRecordToken >>

Next ==
    \/ \E p \in Procs : ListAuthMethods(p)
    \/ \E p \in Procs : AuthWithPassword(p)
    \/ \E p \in Procs : AuthWithOAuth2Code(p)
    \/ \E p \in Procs : AuthRefresh(p)
    \/ \E p \in Procs : RequestVerification(p)
    \/ \E p \in Procs : ConfirmVerification(p)
    \/ \E p \in Procs : RequestPasswordReset(p)
    \/ \E p \in Procs : ConfirmPasswordReset(p)
    \/ \E p \in Procs : RequestEmailChange(p)
    \/ \E p \in Procs : ConfirmEmailChange(p)
    \/ \E p \in Procs : ListExternalAuths(p)
    \/ \E p \in Procs : UnlinkExternalAuth(p)
    \/ \E p \in Procs : One(p)
    \/ \E p \in Procs : OneWithParams(p)
    \/ \E p \in Procs : BackupFullList(p)
    \/ \E p \in Procs : BackupCreate(p)
    \/ \E p \in Procs : BackupUpload(p)
    \/ \E p \in Procs : BackupDelete(p)
    \/ \E p \in Procs : BackupRestore(p)
    \/ \E p \in Procs : FilesGetToken(p)
    \/ \E p \in Procs : Update(p)
    \/ \E p \in Procs : Create(p)
    \/ \E p \in Procs : Delete(p)
    \/ \E p \in Procs : List(p)
    \/ \E p \in Procs : FullList(p)
    \/ \E p \in Procs : FullListNextPage(p)
    \/ \E p \in Procs : AuthorizeEnter(p)
    \/ \E p \in Procs : AuthorizeLogin(p)
    \/ \E p \in Procs : Dispatch(p)
    \/ \E p \in Procs : Receive(p)
    \/ \E p \in Procs : Return(p)

Spec == Init /\ [][Next]_vars

\* The concurrent callers draw their operations from one of each kind: a
\* Backup operation, a Collection operation that only reads the session and
\* an auth flow that stores a token; all run the same gate.
ConcNext ==
    \/ \E p \in Procs : BackupFullList(p)
    \/ \E p \in Procs : ListAuthMethods(p)
    \/ \E p \in Procs : AuthWithPassword(p)
    \/ \E p \in Procs : AuthorizeEnter(p)
    \/ \E p \in Procs : AuthorizeLogin(p)
    \/ \E p \in Procs : Dispatch(p)
    \/ \E p \in Procs : Receive(p)
    \/ \E p \in Procs : Return(p)

ConcSpec == ConcInit /\ [][ConcNext]_vars

\* Backup.Create with a name: Create(name).
BackupCreateNamed(p) ==
    /\ pc[p] = "idle"
    /\ \E n \in Names : Invoke(p, "BackupCreate", <<n>>)

\* A session that holds a token and has no admin email/password, used for
\* Backup.Create alone.
NameInit ==
    /\ nprocs = 1
    /\ InitCommon
    /\ cred = "token"
    /\ token = "a"

NameNext ==
    \/ \E p \in Procs : BackupCreateNamed(p)
    \/ \E p \in Procs : AuthorizeEnter(p)
    \/ \E p \in Procs : Dispatch(p)
    \/ \E p \in Procs : Receive(p)
    \/ \E p \in Procs : Return(p)

NameSpec == NameInit /\ [][NameNext]_vars

\* Backup.GetDownloadURL called on a session of any credential source.
UrlNext ==
    \/ \E p \in Procs : BackupGetDownloadURL(p)
    \/ \E p \in Procs : AuthorizeEnter(p)
    \/ \E p \in Procs : AuthorizeLogin(p)
    \/ \E p \in Procs : BuildDownloadURL(p)
    \/ \E p \in Procs : Return(p)

UrlSpec == Init /\ [][UrlNext]_vars

\* An admin with valid email/password who uses the auth flows and reads
\* records, in a session of at most MaxFlowCalls calls.
FlowInit ==
    /\ Init
    /\ cred = "admin"
    /\ adminOK

AdminAuthWithPassword(p) == Start(p, "AuthWithPassword", <<>>, MaxFlowCalls)

AdminAuthRefresh(p) == Start(p, "AuthRefresh", <<>>, MaxFlowCalls)

AdminOne(p) == Start(p, "One", <<>>, MaxFlowCalls)

FlowNext ==
    \/ \E p \in Procs : AdminAuthWithPassword(p)
    \/ \E p \in Procs : AdminAuthRefresh(p)
    \/ \E p \in Procs : AdminOne(p)
    \/ \E p \in Procs : AuthorizeEnter(p)
    \/ \E p \in Procs : AuthorizeLogin(p)
    \/ \E p \in Procs : Dispatch(p)
    \/ \E p \in Procs : Receive(p)
    \/ \E p \in Procs : Return(p)

FlowSpec == FlowInit /\ [][FlowNext]_vars

\* ------------------------------------------------------------------ claims

\* The three auth flows that return a token.
AuthFlows == {"AuthWithPassword", "AuthWithOAuth2Code", "AuthRefresh"}

\* The operation of thread p has returned.
Returned(p) == pc[p] = "done"

\* The response of thread p's request was a rejection (4xx or 5xx).
Rejected(r) == r.kind = "http" /\ r.status >= 400

\* C1 as stated, for the operations it names (the auth-flow operations,
\* One/OneWithParams, the Backup operations and Files.GetToken): an
\* operation whose gate failed returns the gate's error and
\* has dispatched nothing, and an operation whose gate passed has dispatched
\* exactly one request when it returns.
C1_ExactlyOneRequest ==
    \A p \in Procs :
        Returned(p) /\ op[p] \in Ops =>
            IF authErr[p] # NoErr
            THEN err[p] = authErr[p] /\ sent[p] = 0
            ELSE sent[p] = 1

\* C1 amended: no request goes out before Authorize has returned success; a
\* failed gate ends the operation with the gate's error and no request; a
\* passed gate is followed by exactly one request, except in Backup.Restore,
\* which returns an error without a request when its URL does not parse; a
\* transport error or a rejection is returned as an error and the request is
\* not repeated.
C1_GateThenAtMostOneRequest ==
    \A p \in Procs :
        op[p] \in Ops =>
            /\ sent[p] <= 1
            /\ sent[p] = 1 => pc[p] \in {"wait", "done"} /\ authErr[p] = NoErr
            /\ Returned(p) /\ authErr[p] # NoErr =>
                  err[p] = authErr[p] /\ sent[p] = 0 /\ resp[p] = NoResponse
            /\ Returned(p) /\ authErr[p] = NoErr /\ sent[p] = 0 =>
                  op[p] = "BackupRestore" /\ err[p] = URLErr
            /\ Returned(p) /\ (resp[p].kind = "transport" \/ Rejected(resp[p]))
               => sent[p] = 1 /\ err[p] # NoErr

\* C1 witness: a gate-passed operation has returned after one request that
\* the server rejected.
C1_Witness ==
    \E p \in Procs :
        /\ Returned(p) /\ op[p] \in Ops
        /\ authErr[p] = NoErr /\ sent[p] = 1 /\ Rejected(resp[p])

\* C2: when an auth flow returns success, the session token is the token of
\* the response it returns, whatever the session held before.
C2_FlowStoresResponseToken ==
    \A p \in Procs :
        Returned(p) /\ op[p] \in AuthFlows /\ err[p] = NoErr =>
            /\ token = response[p]
            /\ response[p] = Unmarshal(resp[p].body, "token").Token

\* C2 witness: a flow succeeded over a session that held a different,
\* non-empty token.
C2_Witness ==
    \E p \in Procs :
        /\ Returned(p) /\ op[p] \in AuthFlows /\ err[p] = NoErr
        /\ atSend[p] # NoToken /\ response[p] # NoToken
        /\ atSend[p] # response[p]

\* C3: every accessor in use embeds the one Client, no second token cell
\* exists, and the token an accessor reads when it dispatches its request
\* is the client's token.
C3_SharedTokenCell ==
    /\ Len(heap) = 1
    /\ \A p \in Procs :
          /\ acc[p] = ClientPtr
          /\ pc[p] = "wait" => atSend[p] = token

\* C3 witness: a Backup or Files request is dispatched with the session
\* holding a token that only a Collection auth flow can have stored (the
\* client has no credentials).
C3_Witness ==
    \E p \in Procs :
        /\ pc[p] = "wait" /\ op[p] \in BackupOps \cup FilesOps
        /\ cred = "none" /\ atSend[p] # NoToken /\ flowWrites = 1

\* C4 as stated: after a successful privileged call the session token is
\* non-empty.
C4_SuccessImpliesToken ==
    \A p \in Procs : Returned(p) /\ err[p] = NoErr => token # NoToken

\* C4 amended: after a call has returned success the session token is
\* non-empty exactly when the call is an auth flow whose accepted response
\* carried a token, or the call is not an auth flow and the session held a
\* non-empty token when its request was dispatched; and with accepted admin
\* credentials the session holds a non-empty token whenever a request is
\* dispatched.
C4_SuccessKeepsToken ==
    \A p \in Procs :
        /\ Returned(p) /\ err[p] = NoErr =>
              ( token # NoToken <=>
                   IF op[p] \in AuthFlows
                   THEN response[p] # NoToken
                   ELSE atSend[p] # NoToken )
        /\ sent[p] >= 1 /\ cred = "admin" /\ adminOK => atSend[p] # NoToken

\* C4 witness: an admin session's call other than an auth flow returned
\* success and the token obtained by the gate is in place.
C4_Witness ==
    \E p \in Procs :
        /\ Returned(p) /\ err[p] = NoErr /\ op[p] \notin AuthFlows
        /\ cred = "admin" /\ token # NoToken /\ atSend[p] = token

\* C5: in an admin session whose login is refused, the operation returns
\* Authorize's error with the zero value, sends nothing, and the token is
\* still empty.
C5_RejectedLogin ==
    \A p \in Procs :
        cred = "admin" /\ pc[p] \in {"gated", "done"} /\ authErr[p] # NoErr =>
            /\ token = NoToken
            /\ Returned(p) =>
                  /\ err[p] = authErr[p]
                  /\ response[p] = NoToken
                  /\ sent[p] = 0

\* C5 witness: an operation returned the error of a login the server
\* answered with 401.
C5_Witness ==
    \E p \in Procs :
        /\ Returned(p) /\ cred = "admin"
        /\ authErr[p].kind = "authorize" /\ authErr[p].status = 401

\* C6: a call of Authorize that finds a token returns success, performs no
\* login and leaves the token as it is.
C6_AuthorizeIdempotent ==
    [][ \A p \in Procs :
          ( /\ pc[p] = "authorize"
            /\ heap[acc[p]].token # NoToken
            /\ pc'[p] # "authorize" )
          => /\ pc'[p] = "gated"
             /\ authErr'[p] = NoErr
             /\ loginCount' = loginCount
             /\ authWrites' = authWrites
             /\ heap' = heap ]_vars

\* C6 witness: the second operation of an admin session has passed the gate
\* under the token of the first operation's login.
C6_Witness ==
    \E p \in Procs :
        /\ pc[p] = "gated" /\ calls = 2 /\ cred = "admin"
        /\ loginCount = 1 /\ token # NoToken /\ authErr[p] = NoErr

\* C7: a session without credentials never logs in and its gate never
\* fails or writes the token; a rejection of its request is returned as an
\* error with the response's status and body, and a token that was empty
\* stays empty.
C7_AnonymousRejection ==
    cred = "none" =>
        /\ loginCount = 0
        /\ authWrites = 0
        /\ \A p \in Procs :
              /\ authErr[p] = NoErr
              /\ Returned(p) /\ Rejected(resp[p]) =>
                    /\ err[p].kind = "status"
                    /\ err[p].status = resp[p].status
                    /\ err[p].msg = BodyString(resp[p].body)
                    /\ atSend[p] = NoToken => token = NoToken

\* C7 witness: an anonymous request was answered with 401.
C7_Witness ==
    \E p \in Procs :
        /\ cred = "none" /\ Returned(p) /\ sent[p] = 1
        /\ resp[p].kind = "http" /\ resp[p].status = 401
        /\ atSend[p] = NoToken /\ token = NoToken

\* The response is an HTTP response whose status is outside 200..299.
Non2xx(r) == r.kind = "http" /\ ~(r.status >= 200 /\ r.status <= 299)

\* C8: once the session token has been non-empty no login exchange takes
\* place any more, and a request that went out with a token in the session
\* and was answered with a non-2xx status returns an error and leaves the
\* token as it is.
C8_NeverLoginAgain ==
    [][ /\ hadToken => loginCount' = loginCount
        /\ \A p \in Procs :
              pc[p] = "wait" /\ atSend[p] # NoToken /\ Non2xx(resp'[p]) =>
                  err'[p] # NoErr /\ heap' = heap ]_vars

\* C9: with valid admin credentials and no auth flow having stored a token,
\* at most one login exchange takes place and Authorize writes the token at
\* most once.
C9_SingleLogin == flowWrites = 0 => loginCount <= 1 /\ authWrites <= 1

\* C10: when an auth flow fails after its request went out, the session
\* token is the one the session held when the request was dispatched and
\* the returned response carries no token.
C10_FailedFlow ==
    \A p \in Procs :
        Returned(p) /\ op[p] \in AuthFlows /\ sent[p] = 1 /\ err[p] # NoErr =>
            token = atSend[p] /\ response[p] = NoToken

\* C11: an operation whose request was answered with a non-2xx status
\* returns the error that wraps ErrInvalidResponse, carrying the status of
\* the response and its body text unchanged.
C11_Non2xxIsStatusError ==
    \A p \in Procs :
        Returned(p) /\ Non2xx(resp[p]) =>
            /\ err[p].kind = "status"
            /\ err[p].status = resp[p].status
            /\ err[p].msg = resp[p].body

\* C12: a failed call returns exactly one of three kinds of error, chosen in
\* this order: the send error when the request could not be sent, the error
\* wrapping ErrInvalidResponse when the response is non-2xx (whatever its
\* body), the unmarshal error when a 2xx body does not parse.
C12_ThreeErrorKinds ==
    \A p \in Procs :
        Returned(p) /\ err[p] # NoErr =>
            /\ err[p].kind \in {"send", "status", "unmarshal"}
            /\ err[p].kind = "send" <=> resp[p].kind = "transport"
            /\ err[p].kind = "status" <=> Non2xx(resp[p])
            /\ err[p].kind = "unmarshal" <=>
                  /\ resp[p].kind = "http" /\ ~Non2xx(resp[p])
                  /\ ~Unmarshal(resp[p].body, Shape(op[p])).ok

\* Thread p has sent the request of Backup.Create with a name.
CreateSent(p) ==
    op[p] = "BackupCreate" /\ Len(args[p]) = 1 /\ pc[p] \in {"wait", "done"}
    /\ sent[p] = 1

\* C13: the name Backup.Create sends is getZIPName of the name it was given,
\* and getZIPName leaves that name as it is; "Foo" and "Foo.zip" are both
\* sent as "foo.zip".
C13_ZipNameIdempotent ==
    \A p \in Procs :
        CreateSent(p) =>
            /\ reqName[p] = <<getZIPName(args[p][1])>>
            /\ getZIPName(reqName[p][1]) = reqName[p][1]
            /\ args[p][1] \in {NameFoo, NameFooZip} =>
                  reqName[p][1] = <<"f", "o", "o", ".", "z", "i", "p">>

\* C13 witness: Create was given a name with an upper-case letter inside
\* ".zip" and a character after it, and has sent its request.
C13_Witness ==
    \E p \in Procs :
        CreateSent(p) /\ args[p][1] = <<".", "Z", "i", "p", "i">>

\* strings.HasSuffix.
HasSuffix(s, suffix) ==
    /\ Len(s) >= Len(suffix)
    /\ SubSeq(s, Len(s) - Len(suffix) + 1, Len(s)) = suffix

\* C14: the name Backup.Create sends is the lower-cased name when that ends
\* with ".zip" and the lower-cased name followed by ".zip" otherwise, so it
\* always ends with ".zip".
C14_ZipNameEndsWithZip ==
    \A p \in Procs :
        CreateSent(p) =>
            LET lower == ToLower(args[p][1])
            IN  /\ reqName[p][1] =
                      IF HasSuffix(lower, ZipSuffix) THEN lower
                      ELSE lower \o ZipSuffix
                /\ HasSuffix(reqName[p][1], ZipSuffix)

\* The string is empty or consists of white space only.
Blank(s) == \A i \in 1..Len(s) : s[i] \in WhiteSpace

\* Thread p is inside GetDownloadURL.
InDownloadURL(p) == op[p] = "BackupGetDownloadURL"

\* C15: GetDownloadURL with a blank token or key returns at once with an
\* error and the empty URL; neither that step nor any later step of the call
\* performs a login exchange, sends a request or writes the session token.
C15_BlankArgumentFailsLocally ==
    [][ \A p \in Procs :
          /\ ( /\ pc[p] = "idle" /\ InDownloadURL(p)'
               /\ (Blank(args'[p][1]) \/ Blank(args'[p][2])) )
             => /\ pc'[p] = "done"
                /\ err'[p] = ArgErr
                /\ response'[p] = NoURL
                /\ loginCount' = loginCount /\ sent' = sent /\ heap' = heap
          /\ ( /\ InDownloadURL(p)
               /\ (Blank(args[p][1]) \/ Blank(args[p][2])) )
             => /\ pc[p] = "done"
                /\ loginCount' = loginCount /\ sent' = sent /\ heap' = heap
      ]_vars

\* C15 witness: an admin session without a token has returned from
\* GetDownloadURL with a white-space token and a good key, without a login.
C15_Witness ==
    \E p \in Procs :
        /\ InDownloadURL(p) /\ Returned(p)
        /\ args[p] = << <<" ">>, <<"A">> >>
        /\ cred = "admin" /\ token = NoToken /\ loginCount = 0
        /\ err[p] = ArgErr

\* C16: during GetDownloadURL with a non-blank token and key no login
\* exchange takes place, no request is sent and the session token is not
\* written, and the call does not return the error of a login.
C16_DownloadURLIsPure ==
    [][ \A p \in Procs :
          ( /\ InDownloadURL(p)
            /\ ~Blank(args[p][1]) /\ ~Blank(args[p][2]) )
          => /\ loginCount' = loginCount /\ sent' = sent /\ heap' = heap
             /\ pc'[p] = "done" => err'[p].kind # "authorize"
      ]_vars

\* C18: Upload sends the key it is given as the name of the backup, so the
\* server stores the backup under that key; Restore and Delete called with
\* a key send their request for exactly that key, upper-case letters
\* included.
C18_SameKeyAddressesBackup ==
    \A p \in Procs :
        ( /\ op[p] \in {"BackupUpload", "BackupRestore", "BackupDelete"}
          /\ sent[p] = 1 )
        => reqName[p] = <<args[p][1]>>

\* C19: a step writes the session token only when it is the login exchange
\* of Authorize or the return of the request of AuthWithPassword,
\* AuthWithOAuth2Code or AuthRefresh; every other operation returns with the
\* token the session held when its request was dispatched.
C19_OnlyGateAndFlowsWriteToken ==
    [][ /\ heap' # heap =>
              \E p \in Procs :
                  \/ pc[p] = "login"
                  \/ pc[p] = "wait" /\ op[p] \in AuthFlows
        /\ flowWrites' # flowWrites =>
              \E p \in Procs : pc[p] = "wait" /\ op[p] \in AuthFlows
        /\ \A p \in Procs :
              pc'[p] = "done" /\ op'[p] \notin AuthFlows /\ sent'[p] = 1 =>
                  heap'[ClientPtr].token = atSend'[p]
      ]_vars

\* C19 witness: Files.GetToken has returned a file token with success and
\* the session, which has no credentials, still holds no token.
C19_Witness ==
    \E p \in Procs :
        /\ Returned(p) /\ op[p] = "FilesGetToken" /\ err[p] = NoErr
        /\ response[p] = "a" /\ cred = "none" /\ token = NoToken

\* The operations that return a value decoded from the response.
ValueOps == {o \in Ops : Shape(o) # "none"}

\* C20: an operation that returns a value returns the zero value whenever it
\* returns an error, whether the gate failed, the request could not be sent,
\* the response was a rejection or the body did not decode.
C20_ErrorMeansZeroValue ==
    \A p \in Procs :
        Returned(p) /\ op[p] \in ValueOps /\ err[p] # NoErr =>
            response[p] = NoToken

\* The step is the return of a successful login exchange of thread p.
LoginSucceeds(p) ==
    pc[p] = "login" /\ pc'[p] = "gated" /\ authErr'[p] = NoErr

\* The step is the successful return of an auth flow of thread p.
FlowSucceeds(p) ==
    /\ pc[p] = "wait" /\ pc'[p] = "done"
    /\ op[p] \in AuthFlows /\ err'[p] = NoErr

\* Every step leaves the session token as it is unless it is a successful
\* token-producing exchange: an accepted login leaves a token the server
\* issued, an auth flow the token of its response.  A request built with
\* SetAuthToken carries the session token.
LatestTokenWins ==
    /\ \A p \in Procs :
          /\ LoginSucceeds(p) =>
                token' \in IssuedTokens /\ authWrites' = authWrites + 1
          /\ FlowSucceeds(p) =>
                /\ token' = response'[p]
                /\ response'[p] = Unmarshal(resp'[p].body, "token").Token
          /\ pc[p] = "gated" /\ pc'[p] = "wait" /\ AttachesToken(op[p]) =>
                atSend'[p] = token
    /\ token' # token => \E p \in Procs : LoginSucceeds(p) \/ FlowSucceeds(p)

\* C21: in the session of an admin the token is the token of the most
\* recent successful token-producing exchange, and once an auth flow has
\* stored a non-empty record token no admin login takes place any more.
C21_LatestTokenNoNewLogin ==
    [][ /\ LatestTokenWins
        /\ hadRecordToken => loginCount' = loginCount ]_vars
====
